---- MODULE Spec2Model ----
(***************************************************************************)
(* A model of the EMBI report script (src/app.py): the schema adaptation   *)
(* of load_data, the anchor dates, the per-region metrics table, the       *)
(* reference spread, the sidebar filters and the rolling mean.  One run of *)
(* the script is a sequence of steps; a widget interaction reruns it.      *)
(*                                                                         *)
(* Values are integers (the script's Float64 values restricted to small    *)
(* whole numbers), a mean is kept as an exact fraction [num, den], a null  *)
(* is the empty sequence and a present value v is <<v>>.  A date is the    *)
(* number of days since 2023-01-01.                                        *)
(***************************************************************************)
EXTENDS Integers, Sequences, FiniteSets

\* ------------------------------------------------------------------ bounds
MaxRows == 2
MaxSchemaRows == 2
LongLen == 51
MaxRuns == 2

\* --------------------------------------------------------------- constants
RollingWindow == 50
MonthAgoDays == 30

\* ----------------------------------------------------------------- helpers
Null == <<>>
Some(v) == <<v>>
IsNull(o) == o = <<>>
Get(o) == o[1]

Range(s) == {s[i] : i \in 1..Len(s)}
SeqsUpTo(S, n) == UNION {[1..k -> S] : k \in 0..n}

RECURSIVE SumSeq(_)
SumSeq(s) == IF s = <<>> THEN 0 ELSE Head(s) + SumSeq(Tail(s))

SetMin(S) == CHOOSE x \in S : \A y \in S : x <= y
SetMax(S) == CHOOSE x \in S : \A y \in S : y <= x

\* ---------------------------------------------------------------- calendar
\* Cumulative days before each month, for 2023 (common) and 2024 (leap).
MonthStarts(y) ==
    IF y = 2024
    THEN <<0, 31, 60, 91, 121, 152, 182, 213, 244, 274, 305, 335>>
    ELSE <<0, 31, 59, 90, 120, 151, 181, 212, 243, 273, 304, 334>>

\* pl.col("date").dt.year() / latest_date.year
YearOf(d) == IF d < 365 THEN 2023 ELSE 2024
DayOfYear(d) == IF d < 365 THEN d ELSE d - 365
\* pl.col("date").dt.month() / latest_date.month
MonthOf(d) == Cardinality({m \in 1..12 : MonthStarts(YearOf(d))[m] <= DayOfYear(d)})
MkDate(y, m, dd) == (IF y = 2024 THEN 365 ELSE 0) + MonthStarts(y)[m] + (dd - 1)

\* str.to_lowercase() on the region names the model uses
ToLowercase(s) ==
    CASE s = "Latino" -> "latino"
      [] s = "LATINO" -> "latino"
      [] s = "Asia" -> "asia"
      [] s = "Africa" -> "africa"
      [] OTHER -> s

\* ------------------------------------------------------------------ inputs
Regions == {"Latino", "LATINO", "Asia", "Africa"}
Values == {1, 2}
SmallDates == {MkDate(2023, 12, 20), MkDate(2024, 3, 25),
               MkDate(2024, 4, 10), MkDate(2024, 5, 5)}
SchemaDates == {MkDate(2024, 3, 25), MkDate(2024, 5, 5)}
DateNames == {"date", "Date"}
TidyCols == <<"date", "region", "value">>

File(cols, rows) == [exists |-> TRUE, cols |-> cols, rows |-> rows]
MissingFile == [exists |-> FALSE, cols |-> <<>>, rows |-> <<>>]

\* Tidy files of at most MaxRows observations, in any row order.
TidyRows == [date : SmallDates, region : Regions, value : Values]
SmallTidyFiles == {File(TidyCols, r) : r \in SeqsUpTo(TidyRows, MaxRows)}

\* Files over several column layouts, each with a date column: the wide
\* layout written by fetch_data.py (Date + one column per region), tidy
\* layouts, and layouts with only one of the columns region and value.
SchemaLayouts ==
    { <<"Date", "Latino", "Asia">>, <<"date", "Latino", "Asia">>,
      <<"date", "Asia">>,
      <<"Date", "region", "value">>, <<"date", "region", "value">>,
      <<"date", "region", "Asia">>, <<"Date", "region", "Asia">>,
      <<"date", "value", "Asia">> }
RowsOver(cols) ==
    { [c \in Range(cols) |->
          IF c \in DateNames THEN d ELSE IF c = "region" THEN r ELSE v[c]]
      : d \in SchemaDates, r \in {"Latino", "Asia"}, v \in [Range(cols) -> Values] }
SchemaFiles ==
    {MissingFile} \cup
    UNION { {File(cols, r) : r \in SeqsUpTo(RowsOver(cols), MaxSchemaRows)}
            : cols \in SchemaLayouts }

\* Long tidy files: LongLen daily observations from 2024-01-02, all of region
\* Asia except row q (region Latino) when q > 0; value 2 at row p and 1
\* elsewhere; rows sw and sw+1 exchanged when sw > 0 (an unsorted file).
LongRow(i, p, q) ==
    [date |-> MkDate(2024, 1, 1) + i,
     region |-> IF i = q THEN "Latino" ELSE "Asia",
     value |-> IF i = p THEN 2 ELSE 1]
LongRows(p, q, sw) ==
    [i \in 1..LongLen |->
        LongRow(IF sw > 0 /\ i = sw THEN sw + 1
                ELSE IF sw > 0 /\ i = sw + 1 THEN sw ELSE i, p, q)]
LongFiles ==
    { File(TidyCols, LongRows(p, q, sw))
      : p \in {1, 2, LongLen}, q \in {0, 1, LongLen - 1}, sw \in {0, 1, LongLen - 1} }

\* ------------------------------------------------------------------- state
VARIABLES
    file,        \* data.parquet
    pc,          \* the statement the script is at
    outcome,     \* "running", "done", or the way the run stopped
    lf,          \* load_data()'s frame: [cols, rows]
    df,          \* lf.collect()
    latest_date, \* Null before the anchors are computed
    periods,     \* label -> anchor date
    metrics,     \* the summary table, a sequence of rows
    latam_val,   \* the reference value, a fraction
    widgets,     \* the sidebar's session state
    sel_regions, start_date, end_date,
    series, roll,
    runs,        \* script runs started in this session
    prev_metrics \* the summary table of the previous run

vars == <<file, pc, outcome, lf, df, latest_date, periods, metrics, latam_val,
          widgets, sel_regions, start_date, end_date, series, roll, runs,
          prev_metrics>>

Canonical == {"date", "region", "value"}
Labels == <<"YTD", "QTD", "MTD", "1M">>
NoFrame == [cols |-> <<>>, rows |-> <<>>]
DefaultWidgets == [select_all |-> TRUE, multi |-> Null, slider |-> Null]

InitWith(files) ==
    /\ file \in files
    /\ pc = "load"
    /\ outcome = "running"
    /\ lf = NoFrame
    /\ df = NoFrame
    /\ latest_date = Null
    /\ periods = Null
    /\ metrics = <<>>
    /\ latam_val = Null
    /\ widgets = DefaultWidgets
    /\ sel_regions = {}
    /\ start_date = Null
    /\ end_date = Null
    /\ series = <<>>
    /\ roll = <<>>
    /\ runs = 1
    /\ prev_metrics = Null

Init == InitWith(SmallTidyFiles)
InitSchema == InitWith(SchemaFiles)
InitLong == InitWith(LongFiles)
InitSession == InitWith(SmallTidyFiles \cup LongFiles)

\* --------------------------------------------------------------- load_data
\* lf.rename({"Date": "date"}) when "Date" is a column and "date" is not
RenameDate(t) ==
    IF "Date" \in Range(t.cols) /\ "date" \notin Range(t.cols)
    THEN [cols |-> [i \in 1..Len(t.cols) |->
                       IF t.cols[i] = "Date" THEN "date" ELSE t.cols[i]],
          rows |-> [i \in 1..Len(t.rows) |->
                       [c \in (Range(t.cols) \ {"Date"}) \cup {"date"} |->
                           IF c = "date" THEN t.rows[i]["Date"] ELSE t.rows[i][c]]]]
    ELSE [cols |-> t.cols, rows |-> t.rows]

\* {"region", "value"}.isdisjoint(schema)
IsWide(cols) == {"region", "value"} \cap Range(cols) = {}

\* lf.unpivot(index="date", on=cols, variable_name="region", value_name="value"):
\* the rows of the first column, then those of the second, ...
RECURSIVE Unpivot(_, _)
Unpivot(rows, on) ==
    IF on = <<>> THEN <<>>
    ELSE [i \in 1..Len(rows) |->
             [date |-> rows[i]["date"], region |-> Head(on),
              value |-> rows[i][Head(on)]]]
         \o Unpivot(rows, Tail(on))

IsNotDate(c) == c # "date"
\* cols = list(lf.collect_schema()): the date column is not left out
OnColsWithDate(cols) == cols
\* cols = [c for c in lf.collect_schema() if c != "date"]
OnCols(cols) == SelectSeq(cols, IsNotDate)

\* The frame load_data returns.  A plan that names a column the frame lacks
\* (unpivot's index, or a cast of line 26-28) fails when collected: such a
\* frame keeps its columns and has no rows to read.
load_data(f) ==
    LET t == RenameDate(f) IN
    IF IsWide(t.cols)
    THEN IF "date" \in Range(t.cols)
         THEN [cols |-> TidyCols, rows |-> Unpivot(t.rows, OnCols(t.cols))]
         ELSE [cols |-> t.cols, rows |-> <<>>]
    ELSE [cols |-> t.cols, rows |-> t.rows]

\* lines 10-29, 31: a missing file is reported and the script stops
LoadData ==
    /\ pc = "load"
    /\ IF ~file.exists
       THEN /\ pc' = "halted"
            /\ outcome' = "FileNotFound"
            /\ lf' = lf
       ELSE /\ pc' = "collect"
            /\ outcome' = outcome
            /\ lf' = load_data(file)
    /\ UNCHANGED <<file, df, latest_date, periods, metrics, latam_val, widgets,
                   sel_regions, start_date, end_date, series, roll, runs,
                   prev_metrics>>

\* lines 32-35: collect() raises when a cast names a missing column; the
\* required-columns check follows it
Collect ==
    /\ pc = "collect"
    /\ IF ~(Canonical \subseteq Range(lf.cols))
       THEN /\ pc' = "halted"
            /\ outcome' = "ColumnNotFoundError"
            /\ df' = df
       ELSE LET d == [cols |-> lf.cols, rows |-> lf.rows] IN
            IF ~(Canonical \subseteq Range(d.cols))
            THEN /\ pc' = "halted"
                 /\ outcome' = "SchemaError"
                 /\ df' = d
            ELSE /\ pc' = "anchors"
                 /\ outcome' = outcome
                 /\ df' = d
    /\ UNCHANGED <<file, lf, latest_date, periods, metrics, latam_val, widgets,
                   sel_regions, start_date, end_date, series, roll, runs,
                   prev_metrics>>

\* ----------------------------------------------------------------- anchors
DatesOf(rows) == {rows[i].date : i \in 1..Len(rows)}

\* df.select(pl.col("date").max()).item(): None for a frame without rows
LatestDate(rows) == IF rows = <<>> THEN Null ELSE Some(SetMax(DatesOf(rows)))

\* lines 39-44: the earliest date of latest_date's year
StartYear(rows, latest) ==
    SetMin({d \in DatesOf(rows) : YearOf(d) = YearOf(latest)})

\* line 45
LatestQuarter(latest) == (MonthOf(latest) - 1) \div 3

\* is_between(3*latest_quarter, 3*latest_quarter + 3): one month too many
StartQtrFromPreviousMonth(rows, latest) ==
    LET q == (MonthOf(latest) - 1) \div 3 IN
    SetMin({d \in DatesOf(rows) :
               /\ YearOf(d) = YearOf(latest)
               /\ 3 * q <= MonthOf(d) /\ MonthOf(d) <= 3 * q + 3})

\* lines 46-54: the earliest date of latest_date's year whose month is one of
\* the three months of latest_date's quarter
StartQtr(rows, latest) ==
    LET q == LatestQuarter(latest) IN
    SetMin({d \in DatesOf(rows) :
               /\ YearOf(d) = YearOf(latest)
               /\ 3 * q + 1 <= MonthOf(d) /\ MonthOf(d) <= 3 * q + 3})

\* lines 55-63
StartMonth(rows, latest) ==
    SetMin({d \in DatesOf(rows) :
               YearOf(d) = YearOf(latest) /\ MonthOf(d) = MonthOf(latest)})

\* line 64
MonthAgo(latest) == latest - MonthAgoDays

\* line 66
Periods(rows, latest) ==
    [l \in Range(Labels) |->
        CASE l = "YTD" -> StartYear(rows, latest)
          [] l = "QTD" -> StartQtr(rows, latest)
          [] l = "MTD" -> StartMonth(rows, latest)
          [] OTHER -> MonthAgo(latest)]

\* lines 37-66: latest_date.year raises AttributeError when latest_date is None
Anchors ==
    /\ pc = "anchors"
    /\ latest_date' = LatestDate(df.rows)
    /\ IF IsNull(LatestDate(df.rows))
       THEN /\ pc' = "halted"
            /\ outcome' = "AttributeError"
            /\ periods' = periods
       ELSE /\ pc' = "metrics"
            /\ outcome' = outcome
            /\ periods' = Some(Periods(df.rows, Get(LatestDate(df.rows))))
    /\ UNCHANGED <<file, lf, df, metrics, latam_val, widgets, sel_regions,
                   start_date, end_date, series, roll, runs, prev_metrics>>

\* ----------------------------------------------------------------- metrics
RegionsOf(rows) == {rows[i].region : i \in 1..Len(rows)}

\* The rows of one group, in the frame's row order.
GroupRows(rows, r) ==
    LET InGroup(x) == x.region = r IN SelectSeq(rows, InGroup)

\* pl.col("value").filter(pl.col("date") <= cutoff).last(): the last row, in
\* row order, among the group's rows dated at or before the cutoff
LastUpTo(grows, cutoff) ==
    LET UpTo(x) == x.date <= cutoff
        kept == SelectSeq(grows, UpTo)
    IN IF kept = <<>> THEN Null ELSE Some(kept[Len(kept)].value)

\* (pl.col("Valor") - pl.col(f"{label}_raw").fill_null(0)) * 1e2
DeltaBpsZeroFilled(valor, raw) ==
    IF IsNull(valor) THEN Null
    ELSE Some((Get(valor) - (IF IsNull(raw) THEN 0 ELSE Get(raw))) * 100)

\* (pl.col("Valor") - pl.col(f"{label}_raw")) * 1e2: null when either is null
DeltaBps(valor, raw) ==
    IF IsNull(valor) \/ IsNull(raw) THEN Null ELSE Some((Get(valor) - Get(raw)) * 100)

\* lines 67-80: one group's row of the aggregation
AggRow(rows, r, latest, per) ==
    LET g == GroupRows(rows, r)
        valor == LastUpTo(g, latest)
    IN [region |-> r,
        Valor |-> valor,
        bps |-> [l \in Range(Labels) |-> DeltaBps(valor, LastUpTo(g, per[l]))]]

\* group_by("region") without maintain_order: the groups come out in any order
GroupOrders(rows) ==
    LET S == RegionsOf(rows)
        n == Cardinality(S)
    IN {o \in [1..n -> S] : \A i, j \in 1..n : i # j => o[i] # o[j]}

\* descending order of a nullable column: nulls first
GreaterEq(a, b) == IsNull(a) \/ (~IsNull(b) /\ Get(a) >= Get(b))

\* .sort("Valor", descending=True) without maintain_order: any arrangement of
\* the rows that is descending in Valor; rows with equal Valor in any order
SortOutcomes(t) ==
    LET n == Len(t)
        perms == {p \in [1..n -> 1..n] : \A i, j \in 1..n : i # j => p[i] # p[j]}
    IN {[i \in 1..n |-> t[p[i]]] : p \in
           {q \in perms : \A i \in 1..n - 1 :
                GreaterEq(t[q[i]].Valor, t[q[i + 1]].Valor)}}

\* lines 73-83
MetricsOutcomes(rows, latest, per) ==
    UNION { SortOutcomes([i \in 1..Len(o) |-> AggRow(rows, o[i], latest, per)])
            : o \in GroupOrders(rows) }

Metrics ==
    /\ pc = "metrics"
    /\ metrics' \in MetricsOutcomes(lf.rows, Get(latest_date), Get(periods))
    /\ pc' = "spread"
    /\ UNCHANGED <<file, outcome, lf, df, latest_date, periods, latam_val,
                   widgets, sel_regions, start_date, end_date, series, roll,
                   runs, prev_metrics>>

\* ------------------------------------------------------------------ spread
Frac(n, d) == [num |-> n, den |-> d]

\* metrics.filter(pl.col("region") == "latino"): the case is not folded
LatamRowsCaseSensitive(t) ==
    LET IsLatam(x) == x.region = "latino" IN SelectSeq(t, IsLatam)

\* line 85: metrics.filter(pl.col("region").str.to_lowercase() == "latino")
LatamRows(t) ==
    LET IsLatam(x) == ToLowercase(x.region) = "latino" IN SelectSeq(t, IsLatam)

\* metrics["Valor"].mean(): over the non-null values
MeanValor(t) ==
    LET HasValor(x) == ~IsNull(x.Valor)
        v == SelectSeq(t, HasValor)
    IN IF v = <<>> THEN Null
       ELSE Some(Frac(SumSeq([i \in 1..Len(v) |-> Get(v[i].Valor)]), Len(v)))

\* line 86: the first matching row's Valor, else the mean
LatamVal(t) ==
    LET m == LatamRows(t) IN
    IF Len(m) > 0
    THEN (IF IsNull(m[1].Valor) THEN Null ELSE Some(Frac(Get(m[1].Valor), 1)))
    ELSE MeanValor(t)

\* line 89: (Valor - latam_val) * 1e2, as a fraction over latam_val's denominator
SpreadBps(valor, ref) ==
    IF IsNull(valor) \/ IsNull(ref) THEN Null
    ELSE Some(Frac((Get(valor) * Get(ref).den - Get(ref).num) * 100, Get(ref).den))

WithSpread(t, ref) ==
    [i \in 1..Len(t) |->
        [region |-> t[i].region, Valor |-> t[i].Valor, bps |-> t[i].bps,
         Spread |-> SpreadBps(t[i].Valor, ref)]]

\* lines 85-90
Spread ==
    /\ pc = "spread"
    /\ latam_val' = LatamVal(metrics)
    /\ metrics' = WithSpread(metrics, LatamVal(metrics))
    /\ pc' = "sidebar"
    /\ UNCHANGED <<file, outcome, lf, df, latest_date, periods, widgets,
                   sel_regions, start_date, end_date, series, roll, runs,
                   prev_metrics>>

\* ----------------------------------------------------------------- sidebar
\* line 92: metrics["region"].to_list()
RegionList(t) == [i \in 1..Len(t) |-> t[i].region]

\* lines 95-100: every region when "select all" is checked, else the
\* multiselect's value (its default is every region)
SelRegions(w, regions) ==
    IF w.select_all \/ IsNull(w.multi) THEN Range(regions) ELSE Get(w.multi)

\* lines 103-112: the slider's value (its default is the whole date extent)
SliderValue(w, rows) ==
    IF IsNull(w.slider)
    THEN <<SetMin(DatesOf(rows)), SetMax(DatesOf(rows))>>
    ELSE Get(w.slider)

Sidebar ==
    /\ pc = "sidebar"
    /\ sel_regions' = SelRegions(widgets, RegionList(metrics))
    /\ start_date' = Some(SliderValue(widgets, df.rows)[1])
    /\ end_date' = Some(SliderValue(widgets, df.rows)[2])
    /\ pc' = "series"
    /\ UNCHANGED <<file, outcome, lf, df, latest_date, periods, metrics,
                   latam_val, widgets, series, roll, runs, prev_metrics>>

\* ------------------------------------------------------------------ series
\* lines 139-144
FilterSeries(rows, sel, lo, hi) ==
    LET Keep(x) == x.region \in sel /\ x.date >= lo /\ x.date <= hi
        kept == SelectSeq(rows, Keep)
    IN [i \in 1..Len(kept) |->
           [date |-> kept[i].date, region |-> kept[i].region,
            value |-> kept[i].value]]

Series ==
    /\ pc = "series"
    /\ series' = FilterSeries(lf.rows, sel_regions, Get(start_date), Get(end_date))
    /\ pc' = "roll"
    /\ UNCHANGED <<file, outcome, lf, df, latest_date, periods, metrics,
                   latam_val, widgets, sel_regions, start_date, end_date, roll,
                   runs, prev_metrics>>

\* -------------------------------------------------------------------- roll
\* rolling_mean(50) at the last element of a group's prefix: null until the
\* prefix holds a full window, then the mean of its last 50 values
RollingMean(vals) ==
    IF Len(vals) < RollingWindow THEN Null
    ELSE Some(Frac(SumSeq(SubSeq(vals, Len(vals) - RollingWindow + 1, Len(vals))),
                   RollingWindow))

\* .over("region"): row i's window runs over the rows of its region up to
\* row i, in the frame's row order
RollAt(s, i) ==
    LET Same(x) == x.region = s[i].region
        g == SelectSeq(SubSeq(s, 1, i), Same)
    IN RollingMean([k \in 1..Len(g) |-> g[k].value])

\* lines 166-171
RollFrame(s) ==
    [i \in 1..Len(s) |->
        [date |-> s[i].date, region |-> s[i].region, rolling50 |-> RollAt(s, i)]]

Roll ==
    /\ pc = "roll"
    /\ roll' = RollFrame(series)
    /\ pc' = "done"
    /\ outcome' = "done"
    /\ UNCHANGED <<file, lf, df, latest_date, periods, metrics, latam_val,
                   widgets, sel_regions, start_date, end_date, series, runs,
                   prev_metrics>>

\* ---------------------------------------------------------------- sessions
\* The slider positions tried: the first day, the day after it, the last day.
SliderStops(rows) ==
    {d \in {SetMin(DatesOf(rows)), SetMin(DatesOf(rows)) + 1, SetMax(DatesOf(rows))} :
        d <= SetMax(DatesOf(rows))}

\* One widget is changed: the checkbox is toggled, or (shown only when the
\* checkbox is off) the multiselect is set, or the slider is moved.
WidgetChanges(w, regions, rows) ==
    {[w EXCEPT !.select_all = ~w.select_all]}
    \cup (IF w.select_all THEN {}
          ELSE {[w EXCEPT !.multi = Some(S)] : S \in SUBSET Range(regions)})
    \cup {[w EXCEPT !.slider = Some(ab)] :
             ab \in {x \in SliderStops(rows) \X SliderStops(rows) : x[1] <= x[2]}}

\* A widget interaction reruns the script from its first line with the new
\* widget state; the script's variables start afresh.
Interact ==
    /\ pc = "done"
    /\ runs < MaxRuns
    /\ \E w \in WidgetChanges(widgets, RegionList(metrics), df.rows) :
          /\ w # widgets
          /\ widgets' = w
    /\ runs' = runs + 1
    /\ prev_metrics' = Some(metrics)
    /\ pc' = "load"
    /\ outcome' = "running"
    /\ lf' = NoFrame
    /\ df' = NoFrame
    /\ latest_date' = Null
    /\ periods' = Null
    /\ metrics' = <<>>
    /\ latam_val' = Null
    /\ sel_regions' = {}
    /\ start_date' = Null
    /\ end_date' = Null
    /\ series' = <<>>
    /\ roll' = <<>>
    /\ UNCHANGED file

\* One run of the script.
Next ==
    \/ LoadData
    \/ Collect
    \/ Anchors
    \/ Metrics
    \/ Spread
    \/ Sidebar
    \/ Series
    \/ Roll

\* A session: runs of the script separated by widget interactions.
NextSession == Next \/ Interact

Spec == Init /\ [][Next]_vars
SpecSchema == InitSchema /\ [][Next]_vars
SpecLong == InitLong /\ [][Next]_vars
SpecSession == InitSession /\ [][NextSession]_vars

\* ================================================================== claims
PostAnchors == pc \in {"metrics", "spread", "sidebar", "series", "roll", "done"}
PostMetrics == pc \in {"spread", "sidebar", "series", "roll", "done"}
PostSpread == pc \in {"sidebar", "series", "roll", "done"}

\* The values of region r's observations on r's greatest date <= cutoff.
ValuesByDate(rows, r, cutoff) ==
    LET ds == {rows[i].date : i \in {j \in 1..Len(rows) :
                   rows[j].region = r /\ rows[j].date <= cutoff}}
    IN IF ds = {} THEN {}
       ELSE {rows[i].value : i \in {j \in 1..Len(rows) :
                 rows[j].region = r /\ rows[j].date = SetMax(ds)}}

\* The last row, in row order, of region r dated <= cutoff (0 when none).
LastIndexUpTo(rows, r, cutoff) ==
    LET I == {i \in 1..Len(rows) : rows[i].region = r /\ rows[i].date <= cutoff}
    IN IF I = {} THEN 0 ELSE SetMax(I)

\* C1: in the metrics table every region's current value is the value of its
\* observation with the greatest date <= latest_date, and every delta is taken
\* against the value of its observation with the greatest date <= the anchor,
\* whatever the row order of the series.
C1_LookupIsByDate ==
    PostMetrics =>
        \A k \in 1..Len(metrics) :
            LET m == metrics[k]
                cur == ValuesByDate(lf.rows, m.region, Get(latest_date))
            IN /\ ~IsNull(m.Valor) /\ Get(m.Valor) \in cur
               /\ \A l \in Range(Labels) :
                    LET anc == ValuesByDate(lf.rows, m.region, Get(periods)[l])
                    IN anc # {} =>
                         \E v \in cur, a \in anc : m.bps[l] = Some((v - a) * 100)

\* C2: a region with no observation at or before an anchor has a null delta
\* for that label; every other (region, label) has the delta
\* (current value - anchor value) * 100, the anchor value being the one the
\* aggregation looks up; the table is produced with a row for every region.
C2_MissingAnchorIsNull ==
    PostMetrics =>
        /\ outcome \in {"running", "done"}
        /\ {metrics[k].region : k \in 1..Len(metrics)} = RegionsOf(lf.rows)
        /\ \A k \in 1..Len(metrics) : \A l \in Range(Labels) :
             LET m == metrics[k]
                 ia == LastIndexUpTo(lf.rows, m.region, Get(periods)[l])
             IN /\ ~IsNull(m.Valor)
                /\ IF ia = 0
                   THEN m.bps[l] = Null
                   ELSE m.bps[l] = Some((Get(m.Valor) - lf.rows[ia].value) * 100)

\* A region without an observation at or before the 1M anchor beside a region
\* with one.
C2_Witness ==
    /\ PostMetrics
    /\ \E j, k \in 1..Len(metrics) :
         /\ IsNull(metrics[j].bps["1M"])
         /\ ~IsNull(metrics[j].bps["MTD"])
         /\ ~IsNull(metrics[k].bps["1M"])

QuarterOf(d) == (MonthOf(d) - 1) \div 3

\* C3: the four anchors are <= latest_date, the maximum date of the series;
\* YTD, QTD and MTD are the earliest observation dates of latest_date's year,
\* quarter and month; 1M is latest_date minus 30 days.
C3_AnchorsResolved ==
    PostAnchors =>
        LET ds == DatesOf(df.rows)
            latest == Get(latest_date)
            per == Get(periods)
            InYear(d) == YearOf(d) = YearOf(latest)
            InQuarter(d) == InYear(d) /\ QuarterOf(d) = QuarterOf(latest)
            InMonth(d) == InYear(d) /\ MonthOf(d) = MonthOf(latest)
        IN /\ latest \in ds /\ \A d \in ds : d <= latest
           /\ \A l \in Range(Labels) : per[l] <= latest
           /\ per["YTD"] \in ds /\ InYear(per["YTD"])
           /\ \A d \in ds : InYear(d) => per["YTD"] <= d
           /\ per["QTD"] \in ds /\ InQuarter(per["QTD"])
           /\ \A d \in ds : InQuarter(d) => per["QTD"] <= d
           /\ per["MTD"] \in ds /\ InMonth(per["MTD"])
           /\ \A d \in ds : InMonth(d) => per["MTD"] <= d
           /\ per["1M"] + 30 = latest

\* The year starts before the quarter does, and no observation is dated 30
\* days before the latest one.
C3_Witness ==
    /\ PostAnchors
    /\ Get(periods)["YTD"] < Get(periods)["QTD"]
    /\ Get(periods)["1M"] \notin DatesOf(df.rows)

\* C4: the reference value is the current value of the (first) row whose
\* region is 'latino' in any letter case, else the mean of all current values;
\* every row's spread is (current value - reference) * 100, which is 0 on the
\* reference row.
C4_ReferenceSpread ==
    PostSpread =>
        LET n == Len(metrics)
            L == {k \in 1..n : ToLowercase(metrics[k].region) = "latino"}
            ref == Get(latam_val)
        IN /\ ~IsNull(latam_val)
           /\ IF L # {}
              THEN /\ ref.den = 1
                   /\ ref.num = Get(metrics[SetMin(L)].Valor)
                   /\ Get(metrics[SetMin(L)].Spread).num = 0
              ELSE ref.num * n =
                     ref.den * SumSeq([k \in 1..n |-> Get(metrics[k].Valor)])
           /\ \A k \in 1..n :
                /\ ~IsNull(metrics[k].Spread)
                /\ Get(metrics[k].Spread).num * ref.den =
                     (Get(metrics[k].Valor) * ref.den - ref.num) * 100
                       * Get(metrics[k].Spread).den

\* The reference row, spelled in capitals, beside a region with another value.
C4_Witness ==
    /\ PostSpread
    /\ \E j, k \in 1..Len(metrics) :
         /\ metrics[j].region = "LATINO"
         /\ latam_val = Some(Frac(Get(metrics[j].Valor), 1))
         /\ Get(metrics[k].Spread).num # 0

AfterSchemaCheck == file.exists /\ pc \notin {"load", "collect"}

\* C5: schema adaptation ends either with the columns date, region and value
\* or with the schema error, and with no other failure.
C5_SchemaErrorOrCanonical ==
    AfterSchemaCheck =>
        \/ outcome = "SchemaError"
        \/ /\ outcome # "ColumnNotFoundError"
           /\ Canonical \subseteq Range(df.cols)

\* C6: a dataset with the three columns and no rows stops with the empty-dataset
\* error, with no anchors and no metrics table.
C6_EmptyDatasetError ==
    (AfterSchemaCheck /\ Canonical \subseteq Range(df.cols) /\ df.rows = <<>>
       /\ pc # "anchors") =>
        /\ outcome = "EmptyDatasetError"
        /\ IsNull(periods)
        /\ metrics = <<>>

\* The input's date column, and its other columns.
InputDateName(f) == IF "date" \in Range(f.cols) THEN "date" ELSE "Date"
InputOtherCols(f) == Range(f.cols) \ {InputDateName(f)}
ExpectedTriple(f, i, c) ==
    [date |-> f.rows[i][InputDateName(f)], region |-> c, value |-> f.rows[i][c]]

\* lf holds exactly one tidy row for every input row and every non-date column.
IsUnpivotOf(t, f) ==
    LET cells == (1..Len(f.rows)) \X InputOtherCols(f) IN
    /\ t.cols = TidyCols
    /\ Len(t.rows) = Cardinality(cells)
    /\ \A x \in cells :
         Cardinality({j \in 1..Len(t.rows) : t.rows[j] = ExpectedTriple(f, x[1], x[2])})
           = Cardinality({y \in cells :
                 ExpectedTriple(f, y[1], y[2]) = ExpectedTriple(f, x[1], x[2])})

\* C7 as stated: an input with a date column and without both a region and a
\* value column is unpivoted.
C7_UnpivotUnlessBoth ==
    (file.exists /\ pc # "load"
       /\ Range(file.cols) \cap DateNames # {}
       /\ ~({"region", "value"} \subseteq Range(file.cols))) =>
        IsUnpivotOf(lf, file)

\* C7 as amended: an input with a date column (date, or Date) and with neither
\* a region nor a value column is unpivoted.
C7_UnpivotWhenNeither ==
    (file.exists /\ pc # "load"
       /\ Range(file.cols) \cap DateNames # {}
       /\ "region" \notin Range(file.cols) /\ "value" \notin Range(file.cols)) =>
        IsUnpivotOf(lf, file)

\* A wide input of two rows and two region columns, unpivoted into four rows.
C7_Witness ==
    /\ pc # "load"
    /\ file.cols = <<"Date", "Latino", "Asia">>
    /\ Len(file.rows) = 2
    /\ file.rows[1]["Date"] # file.rows[2]["Date"]
    /\ Len(lf.rows) = 4

\* The first row of the series in which region r occurs.
FirstRowOf(rows, r) == SetMin({i \in 1..Len(rows) : rows[i].region = r})

\* C8: one row per distinct region, descending in current value, regions with
\* equal current value in the order of their first occurrence in the series.
C8_SortedStable ==
    PostMetrics =>
        /\ Len(metrics) = Cardinality(RegionsOf(lf.rows))
        /\ {metrics[k].region : k \in 1..Len(metrics)} = RegionsOf(lf.rows)
        /\ \A k \in 1..Len(metrics) - 1 :
             /\ Get(metrics[k].Valor) >= Get(metrics[k + 1].Valor)
             /\ Get(metrics[k].Valor) = Get(metrics[k + 1].Valor) =>
                  FirstRowOf(lf.rows, metrics[k].region)
                    < FirstRowOf(lf.rows, metrics[k + 1].region)

\* C9: a second run of the script on the same dataset produces the metrics
\* table of the first run, row for row.
C9_SameTableOnRerun ==
    (runs >= 2 /\ pc = "done") => metrics = Get(prev_metrics)

\* The position of row i among its region's rows of s taken in date order.
DateRank(s, i) ==
    Cardinality({j \in 1..Len(s) :
                    s[j].region = s[i].region /\ s[j].date <= s[i].date})

\* The mean of the 50 observations of row i's region that end, in date order,
\* at row i.
WindowByDate(s, i) ==
    LET k == DateRank(s, i)
        InWindow(j) == /\ s[j].region = s[i].region
                       /\ DateRank(s, j) > k - 50 /\ DateRank(s, j) <= k
    IN IF k < 50 THEN Null
       ELSE Some(Frac(SumSeq([j \in 1..Len(s) |->
                                 IF InWindow(j) THEN s[j].value ELSE 0]), 50))

\* C10: the rolling series has a row per observation of the filtered slice,
\* and its value at a region's k-th observation in date order is null for
\* k < 50 and else the mean of that region's observations k-49..k of the
\* slice, whatever the row order of the input.
C10_RollingByDate ==
    pc = "done" =>
        LET Kept(x) == /\ x.region \in sel_regions
                       /\ x.date >= Get(start_date) /\ x.date <= Get(end_date)
            s == SelectSeq(lf.rows, Kept)
        IN /\ Len(roll) = Len(s)
           /\ \A i \in 1..Len(s) :
                /\ roll[i].date = s[i].date
                /\ roll[i].region = s[i].region
                /\ roll[i].rolling50 = WindowByDate(s, i)
====
